---- MODULE Spec2Model ----
(***************************************************************************)
(* ComfyUI_FL-SongGen: the model-loader node (fl_nodes/model_loader.py),   *)
(* the path helpers (fl_utils/paths.py) and the transformers compatibility *)
(* shim (fl_utils/compat.py).                                              *)
(***************************************************************************)
EXTENDS Integers, Sequences, FiniteSets, TLC

VARIABLES
    \* fl_utils/compat.py
    heads, n_heads, head_dim, already_pruned_heads, import_ok, fn, result, cpc,
    \* fl_utils/paths.py: the filesystem, sys.path, the last call and what
    \* the filesystem and sys.path were when it was made
    fs, sys_path, ret, fs_before, sys_before, nsetup,
    \* fl_nodes/model_loader.py: the node call in progress (its arguments,
    \* locals and position), what it called, logged and ended with, and the
    \* model-info dicts the loader has handed out
    pc, model_variant, memory_mode, force_reload,
    resolved_mode, low_mem, ultra_low_mem, model_info, exc,
    calls, rec_call, loader_args, loader_raised, log, outcome,
    heap, returned, ncalls

pruneVars == <<heads, n_heads, head_dim, already_pruned_heads, import_ok, fn, result, cpc>>
pathVars == <<fs, sys_path, ret, fs_before, sys_before, nsetup>>
callVars == <<pc, model_variant, memory_mode, force_reload,
              resolved_mode, low_mem, ultra_low_mem, model_info, exc,
              calls, rec_call, loader_args, loader_raised, log, outcome>>
loaderVars == <<callVars, heap, returned, ncalls>>
vars == <<pruneVars, pathVars, loaderVars>>
notPruneVars == <<pathVars, loaderVars>>
notPathVars == <<pruneVars, loaderVars>>
notLoaderVars == <<pruneVars, pathVars>>

(***************************************************************************)
(* Bounds of the model.                                                    *)
(***************************************************************************)
MaxHeads == 3
MaxHeadDim == 2
MaxHeadsLen == 2
MaxSysPath == 2
MaxSetupCalls == 2
MaxCalls == 2

(***************************************************************************)
(* Helpers shared by the sections.                                         *)
(***************************************************************************)
ToSet(s) == {s[i] : i \in DOMAIN s}

SeqsUpTo(S, n) == UNION {[1..k -> S] : k \in 0..n}

(***************************************************************************)
(* fl_utils/compat.py                                                      *)
(***************************************************************************)

\* torch.ones(n_heads, head_dim): rows 0..n-1, columns 0..d-1, all 1.
Ones(n, d) == [r \in 0..(n - 1) |-> [c \in 0..(d - 1) |-> 1]]

\* Row addressed by mask[head]: Python indexing wraps one negative range
\* around and refuses anything else outside 0..n-1.
InRange(h, n) == h >= -n /\ h < n
RowOf(h, n) == IF h < 0 THEN h + n ELSE h

\* for head in S: mask[row(head)] = 0
RECURSIVE ZeroRows(_, _, _)
ZeroRows(mask, rows, n) ==
    IF rows = {} THEN mask
    ELSE LET r == CHOOSE x \in rows : TRUE
         IN ZeroRows([mask EXCEPT ![r] = [c \in DOMAIN mask[r] |-> 0]], rows \ {r}, n)

\* mask.view(-1).contiguous().eq(1): row-major flattening, then the test == 1.
ViewFlatEq1(mask, n, d) ==
    [i \in 1..(n * d) |-> mask[(i - 1) \div d][(i - 1) % d] = 1]

\* torch.arange(len(mask))[mask].long(): the positions 0..len-1 whose mask
\* entry is true, in ascending order.
RECURSIVE ArangeSelect(_, _)
ArangeSelect(flat, k) ==
    IF k > Len(flat) THEN <<>>
    ELSE (IF flat[k] THEN <<k - 1>> ELSE <<>>) \o ArangeSelect(flat, k + 1)

\* What a call of the function yields: the returned pair, or the IndexError
\* that mask[head] raises.
Returned(hs, index) == [raised |-> "none", heads |-> hs, index |-> index]
IndexError == [raised |-> "IndexError", heads |-> {}, index |-> <<>>]
NoResult == [raised |-> "pending", heads |-> {}, index |-> <<>>]

\* A variant of the inner function that keeps the already pruned heads in the set.
FallbackFindKeepPruned(hs, n, d, pruned) ==
    LET heads_to_prune == ToSet(hs)
    IN IF \E h \in heads_to_prune : ~InRange(h, n) THEN IndexError
       ELSE LET mask == ZeroRows(Ones(n, d), {RowOf(h, n) : h \in heads_to_prune}, n)
            IN Returned(heads_to_prune, ArangeSelect(ViewFlatEq1(mask, n, d), 1))

\* The inner find_pruneable_heads_and_indices of the ImportError branch.
FallbackFind(hs, n, d, pruned) ==
    LET heads_to_prune == ToSet(hs) \ pruned
    IN IF \E h \in heads_to_prune : ~InRange(h, n) THEN IndexError
       ELSE LET mask == ZeroRows(Ones(n, d), {RowOf(h, n) : h \in heads_to_prune}, n)
            IN Returned(heads_to_prune, ArangeSelect(ViewFlatEq1(mask, n, d), 1))

\* transformers.pytorch_utils.find_pruneable_heads_and_indices (before 4.40):
\* each head is moved down by the number of already pruned heads below it
\* before its row is masked.
ShiftHead(h, pruned) == h - Cardinality({p \in pruned : p < h})
TransformersFind(hs, n, d, pruned) ==
    LET heads_to_prune == ToSet(hs) \ pruned
        shifted == {ShiftHead(h, pruned) : h \in heads_to_prune}
    IN IF \E h \in shifted : ~InRange(h, n) THEN IndexError
       ELSE LET mask == ZeroRows(Ones(n, d), {RowOf(h, n) : h \in shifted}, n)
            IN Returned(heads_to_prune, ArangeSelect(ViewFlatEq1(mask, n, d), 1))

HeadValues == (-1)..MaxHeads

PruneInit ==
    /\ n_heads \in 1..MaxHeads
    /\ head_dim \in 1..MaxHeadDim
    /\ heads \in SeqsUpTo(HeadValues, MaxHeadsLen)
    /\ already_pruned_heads \in SUBSET (0..MaxHeads)
    /\ import_ok \in BOOLEAN
    /\ fn = "none"
    /\ result = NoResult
    /\ cpc = "start"

PruneOff ==
    /\ n_heads = 1
    /\ head_dim = 1
    /\ heads = <<>>
    /\ already_pruned_heads = {}
    /\ import_ok = FALSE
    /\ fn = "none"
    /\ result = NoResult
    /\ cpc = "off"

\* get_find_pruneable_heads_and_indices(): the library's function when the
\* import succeeds, the local fallback on ImportError.
GetFindPruneableHeadsAndIndices ==
    /\ cpc = "start"
    /\ fn' = IF import_ok THEN "transformers" ELSE "fallback"
    /\ cpc' = "got"
    /\ UNCHANGED <<heads, n_heads, head_dim, already_pruned_heads, import_ok, result>>
    /\ UNCHANGED notPruneVars

\* The caller applies the function it was handed.
CallFind ==
    /\ cpc = "got"
    /\ result' = IF fn = "transformers"
                 THEN TransformersFind(heads, n_heads, head_dim, already_pruned_heads)
                 ELSE FallbackFind(heads, n_heads, head_dim, already_pruned_heads)
    /\ cpc' = "done"
    /\ UNCHANGED <<heads, n_heads, head_dim, already_pruned_heads, import_ok, fn>>
    /\ UNCHANGED notPruneVars

PruneNext == GetFindPruneableHeadsAndIndices \/ CallFind

(***************************************************************************)
(* fl_utils/paths.py                                                       *)
(* A path is the sequence of its components below the ComfyUI root.        *)
(***************************************************************************)

\* Path(__file__): <ComfyUI>/custom_nodes/ComfyUI_FL-SongGen/fl_utils/paths.py
ThisFile == <<"custom_nodes", "ComfyUI_FL-SongGen", "fl_utils", "paths.py">>

\* pathlib: .parent, the / operator, .name, .relative_to(base), str()
Parent(p) == SubSeq(p, 1, Len(p) - 1)
Div(p, name) == Append(p, name)
Name(p) == p[Len(p)]
RelativeTo(p, base) == SubSeq(p, Len(base) + 1, Len(p))
RECURSIVE JoinStr(_)
JoinStr(p) ==
    IF Len(p) = 0 THEN ""
    ELSE IF Len(p) = 1 THEN p[1]
    ELSE JoinStr(Parent(p)) \o "/" \o Name(p)
Str(p) == IF Len(p) = 0 THEN "/ComfyUI" ELSE "/ComfyUI/" \o JoinStr(p)

get_comfyui_root == Parent(Parent(Parent(Parent(ThisFile))))
get_package_root == Parent(Parent(ThisFile))

Variants == {"songgeneration_base", "songgeneration_base_new"}
Kinds == {"absent", "file", "dir"}

required_files == <<"config.yaml", "model.pt">>
CkptItemNames == <<"model_1rvq", "model_septoken", "vae">>

SonggenDir == Div(Div(get_comfyui_root, "models"), "songgen")
CkptDir == Div(SonggenDir, "ckpt")
VariantDirs == {Div(SonggenDir, v) : v \in Variants}
VariantFiles == {Div(d, required_files[i]) : d \in VariantDirs, i \in DOMAIN required_files}
CkptItems == {Div(CkptDir, CkptItemNames[i]) : i \in DOMAIN CkptItemNames}
ModelPaths ==
    {Parent(SonggenDir), SonggenDir, CkptDir} \cup VariantDirs \cup VariantFiles \cup CkptItems

\* The paths the bundled code is looked up under, below the package root.
BundledRel ==
    { <<"codeclm">>, <<"codeclm", "models">>, <<"codeclm", "tokenizer">>,
      <<"codeclm", "tokenizer", "Flow1dVAE">>, <<"third_party">>,
      <<"third_party", "stable_audio_tools">>, <<"third_party", "demucs">> }
BundledPaths == {get_package_root \o r : r \in BundledRel}

\* The directories the running module itself sits in.
FixedDirs == {<<>>, Parent(get_package_root), get_package_root}
AllPaths == FixedDirs \cup ModelPaths \cup BundledPaths

Exists(f, p) == p \in DOMAIN f /\ f[p] # "absent"

\* A filesystem holds an entry only inside a directory.
Prefixes(p) == {SubSeq(p, 1, k) : k \in 0..(Len(p) - 1)}
Normalize(raw) ==
    [p \in DOMAIN raw |->
        IF \A q \in Prefixes(p) : q \in DOMAIN raw => raw[q] = "dir"
        THEN raw[p] ELSE "absent"]

ModelTrees ==
    { Normalize([p \in ModelPaths \cup FixedDirs |->
          IF p \in FixedDirs THEN "dir"
          ELSE IF p = Parent(SonggenDir) THEN mk
          ELSE IF p = SonggenDir THEN sk
          ELSE IF p = CkptDir THEN ck
          ELSE IF p \in VariantDirs THEN vk[Name(p)]
          ELSE IF p \in files \cup items THEN (IF p \in files THEN "file" ELSE "dir")
          ELSE "absent"]) :
        mk \in {"absent", "dir"}, sk \in Kinds, ck \in Kinds,
        vk \in [Variants -> Kinds], files \in SUBSET VariantFiles,
        items \in SUBSET CkptItems }

BundledTrees ==
    { Normalize([p \in BundledPaths \cup FixedDirs |->
          IF p \in FixedDirs \cup present THEN "dir" ELSE "absent"]) :
        present \in SUBSET BundledPaths }

EmptyTree == [p \in AllPaths |-> IF p \in FixedDirs THEN "dir" ELSE "absent"]

\* Path.mkdir(parents=True, exist_ok=True): nothing to do for a directory,
\* FileExistsError for anything else of that name, NotADirectoryError below
\* a file, and the missing parents first.
RECURSIVE Mkdir(_, _)
Mkdir(f, p) ==
    IF f[p] = "dir" THEN [fs |-> f, raised |-> "none"]
    ELSE IF f[p] = "file" THEN [fs |-> f, raised |-> "FileExistsError"]
    ELSE IF f[Parent(p)] = "file" THEN [fs |-> f, raised |-> "NotADirectoryError"]
    ELSE LET up == IF f[Parent(p)] = "dir"
                   THEN [fs |-> f, raised |-> "none"]
                   ELSE Mkdir(f, Parent(p))
         IN IF up.raised # "none" THEN up
            ELSE [fs |-> [up.fs EXCEPT ![p] = "dir"], raised |-> "none"]

\* What a call leaves behind: the exception it raised ("none" when it
\* returned), the path it returned (the dict's 'path'), and for the check_*
\* functions the dict's 'exists' and 'missing'.
Ret(op, arg, raised, path, exists, missing) ==
    [op |-> op, arg |-> arg, raised |-> raised, path |-> path,
     exists |-> exists, missing |-> missing]
NoRet == Ret("none", "", "none", <<>>, FALSE, <<>>)
Raise(op, arg, e) == Ret(op, arg, e, <<>>, FALSE, <<>>)

\* The loops of the check_* functions: the required entries that do not
\* exist, in the order of the list, each under the name the function gives.
RECURSIVE MissingOf(_, _, _)
\* The same loop reporting the entries that exist.
MissingOfInverted(f, required, names) ==
    IF required = <<>> THEN <<>>
    ELSE (IF Exists(f, Head(required)) THEN <<Head(names)>> ELSE <<>>)
         \o MissingOf(f, Tail(required), Tail(names))

MissingOf(f, required, names) ==
    IF required = <<>> THEN <<>>
    ELSE (IF ~Exists(f, Head(required)) THEN <<Head(names)>> ELSE <<>>)
         \o MissingOf(f, Tail(required), Tail(names))

\* get_songgen_models_dir(): [fs, raised, path]
SonggenModelsDir(f) ==
    LET models_dir == Div(Div(get_comfyui_root, "models"), "songgen")
        m == Mkdir(f, models_dir)
    IN [fs |-> m.fs, raised |-> m.raised, path |-> models_dir]

\* get_model_variant_dir(variant)
ModelVariantDir(f, variant) ==
    LET base == SonggenModelsDir(f)
    IN IF base.raised # "none" THEN base
       ELSE LET path == Div(base.path, variant)
                m == Mkdir(base.fs, path)
            IN [fs |-> m.fs, raised |-> m.raised, path |-> path]

\* get_checkpoints_dir() creating the directory it names, as its siblings do.
CheckpointsDirMkdir(f) ==
    LET base == SonggenModelsDir(f)
    IN IF base.raised # "none" THEN base
       ELSE LET path == Div(base.path, "ckpt")
                m == Mkdir(base.fs, path)
            IN [fs |-> m.fs, raised |-> m.raised, path |-> path]

\* get_checkpoints_dir()
CheckpointsDir(f) ==
    LET base == SonggenModelsDir(f)
    IN [fs |-> base.fs, raised |-> base.raised, path |-> Div(base.path, "ckpt")]

\* What every call of a path helper leaves outside the filesystem and its
\* own result.
PathFrame ==
    /\ fs_before' = fs
    /\ UNCHANGED <<sys_path, sys_before, nsetup>>
    /\ UNCHANGED notPathVars

GetSonggenModelsDir ==
    /\ LET r == SonggenModelsDir(fs)
       IN /\ fs' = r.fs
          /\ ret' = IF r.raised # "none"
                    THEN Raise("get_songgen_models_dir", "", r.raised)
                    ELSE Ret("get_songgen_models_dir", "", "none", r.path, FALSE, <<>>)
    /\ PathFrame

GetModelVariantDir(variant) ==
    /\ LET r == ModelVariantDir(fs, variant)
       IN /\ fs' = r.fs
          /\ ret' = IF r.raised # "none"
                    THEN Raise("get_model_variant_dir", variant, r.raised)
                    ELSE Ret("get_model_variant_dir", variant, "none", r.path, FALSE, <<>>)
    /\ PathFrame

GetCheckpointsDir ==
    /\ LET r == CheckpointsDir(fs)
       IN /\ fs' = r.fs
          /\ ret' = IF r.raised # "none"
                    THEN Raise("get_checkpoints_dir", "", r.raised)
                    ELSE Ret("get_checkpoints_dir", "", "none", r.path, FALSE, <<>>)
    /\ PathFrame

RelStr(base, d) == JoinStr(RelativeTo(d, base))

CheckBundledFiles ==
    /\ LET package_root == get_package_root
           required_dirs ==
               << Div(package_root, "codeclm"),
                  Div(Div(package_root, "codeclm"), "models"),
                  Div(Div(package_root, "codeclm"), "tokenizer"),
                  Div(package_root, "third_party"),
                  Div(Div(package_root, "third_party"), "stable_audio_tools"),
                  Div(Div(package_root, "third_party"), "demucs") >>
           names == [i \in DOMAIN required_dirs |->
                        RelStr(package_root, required_dirs[i])]
           missing == MissingOf(fs, required_dirs, names)
       IN /\ fs' = fs
          /\ ret' = Ret("check_bundled_files", "", "none", package_root,
                        Len(missing) = 0, missing)
    /\ PathFrame

CheckCheckpointFiles ==
    /\ LET c == CheckpointsDir(fs)
           ckpt_dir == c.path
           required_items ==
               << Div(ckpt_dir, "model_1rvq"), Div(ckpt_dir, "model_septoken"),
                  Div(ckpt_dir, "vae") >>
           names == [i \in DOMAIN required_items |-> Name(required_items[i])]
           missing == MissingOf(c.fs, required_items, names)
       IN /\ fs' = c.fs
          /\ ret' = IF c.raised # "none"
                    THEN Raise("check_checkpoint_files", "", c.raised)
                    ELSE Ret("check_checkpoint_files", "", "none", ckpt_dir,
                             Len(missing) = 0, missing)
    /\ PathFrame

CheckModelFiles(variant) ==
    /\ LET v == ModelVariantDir(fs, variant)
           variant_dir == v.path
           paths == [i \in DOMAIN required_files |->
                        Div(variant_dir, required_files[i])]
           missing == MissingOf(v.fs, paths, required_files)
       IN /\ fs' = v.fs
          /\ ret' = IF v.raised # "none"
                    THEN Raise("check_model_files", variant, v.raised)
                    ELSE Ret("check_model_files", variant, "none", variant_dir,
                             Len(missing) = 0, missing)
    /\ PathFrame

\* Path(path) for a string of sys.path: the path it spells.
PathOf(str) ==
    IF \E p \in AllPaths : Str(p) = str
    THEN CHOOSE p \in AllPaths : Str(p) = str
    ELSE <<"?">>

\* sys.path.insert(0, path)
Insert0(sp, path) == <<path>> \o sp

\* The loop of setup_bundled_imports without its membership test.
RECURSIVE AddPathsNoMembership(_, _, _)
AddPathsNoMembership(sp, paths_to_add, f) ==
    IF paths_to_add = <<>> THEN sp
    ELSE LET path == Head(paths_to_add)
         IN AddPathsNoMembership(
                IF Exists(f, PathOf(path)) THEN Insert0(sp, path) ELSE sp,
                Tail(paths_to_add), f)

\* for path in paths_to_add:
\*     if path not in sys.path and Path(path).exists(): sys.path.insert(0, path)
RECURSIVE AddPaths(_, _, _)
AddPaths(sp, paths_to_add, f) ==
    IF paths_to_add = <<>> THEN sp
    ELSE LET path == Head(paths_to_add)
         IN AddPaths(
                IF path \notin ToSet(sp) /\ Exists(f, PathOf(path))
                THEN Insert0(sp, path) ELSE sp,
                Tail(paths_to_add), f)

BundledImportPaths ==
    LET package_root == get_package_root
    IN << Str(package_root),
          Str(Div(package_root, "codeclm")),
          Str(Div(Div(Div(package_root, "codeclm"), "tokenizer"), "Flow1dVAE")),
          Str(Div(package_root, "third_party")) >>

SetupBundledImports ==
    /\ nsetup < MaxSetupCalls
    /\ nsetup' = nsetup + 1
    /\ sys_before' = sys_path
    /\ sys_path' = AddPaths(sys_path, BundledImportPaths, fs)
    /\ ret' = Ret("setup_bundled_imports", "", "none", <<>>, FALSE, <<>>)
    /\ fs_before' = fs
    /\ UNCHANGED fs
    /\ UNCHANGED notPathVars

\* Legacy alias: setup_runtime_imports() calls setup_bundled_imports().
SetupRuntimeImports ==
    /\ nsetup < MaxSetupCalls
    /\ nsetup' = nsetup + 1
    /\ sys_before' = sys_path
    /\ sys_path' = AddPaths(sys_path, BundledImportPaths, fs)
    /\ ret' = Ret("setup_runtime_imports", "", "none", <<>>, FALSE, <<>>)
    /\ fs_before' = fs
    /\ UNCHANGED fs
    /\ UNCHANGED notPathVars

\* What sys.path may hold before the package touches it.
SysPathEntries == ToSet(BundledImportPaths) \cup {"/usr/lib/python3", "/ComfyUI"}

SysPathInit ==
    /\ \E b \in BundledTrees :
          fs = [p \in AllPaths |-> IF p \in BundledPaths THEN b[p]
                                   ELSE IF p \in FixedDirs THEN "dir" ELSE "absent"]
    /\ fs_before = fs
    /\ ret = NoRet
    /\ sys_path \in SeqsUpTo(SysPathEntries, MaxSysPath)
    /\ sys_before = sys_path
    /\ nsetup = 0

SysPathNext == SetupBundledImports \/ SetupRuntimeImports

PathsInit ==
    /\ \E m \in ModelTrees, b \in BundledTrees :
          fs = [p \in AllPaths |-> IF p \in ModelPaths THEN m[p]
                                   ELSE IF p \in BundledPaths THEN b[p] ELSE "dir"]
    /\ fs_before = fs
    /\ ret = NoRet
    /\ sys_path = <<>>
    /\ sys_before = <<>>
    /\ nsetup = 0

PathsOff ==
    /\ fs = EmptyTree
    /\ fs_before = EmptyTree
    /\ ret = NoRet
    /\ sys_path = <<>>
    /\ sys_before = <<>>
    /\ nsetup = 0

PathsNext ==
    \/ GetSonggenModelsDir
    \/ \E variant \in Variants : GetModelVariantDir(variant)
    \/ GetCheckpointsDir
    \/ CheckBundledFiles
    \/ CheckCheckpointFiles
    \/ \E variant \in Variants : CheckModelFiles(variant)


(***************************************************************************)
(* fl_nodes/model_loader.py                                                *)
(***************************************************************************)
MEMORY_MODES == <<"auto", "normal", "low", "ultra">>

\* memory_mode as the host offers it, and one string it does not offer.
MemoryModeInputs == ToSet(MEMORY_MODES) \cup {"low_mem"}

\* What get_recommended_memory_mode may answer: the names the flag mapping
\* knows and one it does not.
RecommendedModes == {"normal", "low", "ultra", "low_mem", "ultra_low_mem", "max"}

\* The exceptions a collaborator may raise.
ExcTypes == {"FileNotFoundError", "RuntimeError"}
Exc(type, at) == [type |-> type, at |-> at]
NoExc == Exc("none", "none")

NoOutcome == [kind |-> "none", obj |-> 0, exc |-> NoExc]
NoRec == [variant |-> "", value |-> ""]
NoArgs == [variant |-> "", low_mem |-> FALSE, use_flash_attn |-> FALSE,
           force_reload |-> FALSE]
NoCalls == [rec |-> 0, vram |-> 0, load |-> 0]

\* if memory_mode == "auto"
IsAutoOrNormal(mm) == mm \in {"auto", "normal"}
IsAuto(mm) == mm = "auto"

\* low_mem = resolved_mode in ("low", "ultra_low_mem", "low_mem")
MapLowMem(mode) == mode \in {"low", "ultra_low_mem", "low_mem"}
\* ultra_low_mem = resolved_mode in ("ultra", "ultra_low_mem")
MapUltraLowMem(mode) == mode \in {"ultra", "ultra_low_mem"}

\* The low_mem argument of the loader call: low_mem or ultra_low_mem
LoaderLowMemOnly(lm, ulm) == lm
LoaderLowMem(lm, ulm) == lm \/ ulm

\* The VRAM line of the banner.
BannerLine(lm, ulm) ==
    IF ulm THEN "banner/6GB" ELSE IF lm THEN "banner/vram_low" ELSE "banner/vram_normal"

\* Which except clause takes an exception raised in the try block.
HandlerGenericFirst(e) == "error"
Handler(e) == IF e.type = "FileNotFoundError" THEN "hint" ELSE "error"

\* raise e
ReraiseWrapped(e) == Exc("RuntimeError", e.at)
Reraise(e) == e

\* Where the try block begins: the steps whose exceptions the except
\* clauses see.
InTry(at) == at \in {"pbar", "load", "tag"}

\* An exception raised outside the try block leaves the call as it is.
Propagate(e) ==
    /\ outcome' = [kind |-> "raised", obj |-> 0, exc |-> e]
    /\ pc' = "done"

LoaderOff ==
    /\ pc = "off"
    /\ model_variant = ""
    /\ memory_mode = ""
    /\ force_reload = FALSE
    /\ resolved_mode = ""
    /\ low_mem = FALSE
    /\ ultra_low_mem = FALSE
    /\ model_info = 0
    /\ exc = NoExc
    /\ calls = NoCalls
    /\ rec_call = NoRec
    /\ loader_args = NoArgs
    /\ loader_raised = NoExc
    /\ log = <<>>
    /\ outcome = NoOutcome
    /\ heap = <<>>
    /\ returned = {}
    /\ ncalls = 0

LoaderInit ==
    /\ pc = "idle"
    /\ model_variant = ""
    /\ memory_mode = ""
    /\ force_reload = FALSE
    /\ resolved_mode = ""
    /\ low_mem = FALSE
    /\ ultra_low_mem = FALSE
    /\ model_info = 0
    /\ exc = NoExc
    /\ calls = NoCalls
    /\ rec_call = NoRec
    /\ loader_args = NoArgs
    /\ loader_raised = NoExc
    /\ log = <<>>
    /\ outcome = NoOutcome
    /\ heap = <<>>
    /\ returned = {}
    /\ ncalls = 0

\* The host calls FL_SongGen_ModelLoader.load_model(model_variant,
\* memory_mode, force_reload).
CallNode(variant, mm, force) ==
    /\ pc \in {"idle", "done"}
    /\ ncalls < MaxCalls
    /\ ncalls' = ncalls + 1
    /\ pc' = "resolve"
    /\ model_variant' = variant
    /\ memory_mode' = mm
    /\ force_reload' = force
    /\ resolved_mode' = ""
    /\ low_mem' = FALSE
    /\ ultra_low_mem' = FALSE
    /\ model_info' = 0
    /\ exc' = NoExc
    /\ calls' = NoCalls
    /\ rec_call' = NoRec
    /\ loader_args' = NoArgs
    /\ loader_raised' = NoExc
    /\ log' = <<>>
    /\ outcome' = NoOutcome
    /\ UNCHANGED <<heap, returned>>
    /\ UNCHANGED notLoaderVars

\* resolved_mode = get_recommended_memory_mode(model_variant)
ResolveAuto ==
    /\ pc = "resolve"
    /\ IsAuto(memory_mode)
    /\ calls' = [calls EXCEPT !.rec = @ + 1]
    /\ \/ \E mode \in RecommendedModes :
             /\ resolved_mode' = mode
             /\ rec_call' = [variant |-> model_variant, value |-> mode]
             /\ pc' = "vram"
             /\ UNCHANGED outcome
       \/ \E t \in ExcTypes :
             /\ Propagate(Exc(t, "recommend"))
             /\ UNCHANGED <<resolved_mode, rec_call>>
    /\ UNCHANGED <<model_variant, memory_mode, force_reload, low_mem, ultra_low_mem,
                   model_info, exc, loader_args, loader_raised, log, heap, returned, ncalls>>
    /\ UNCHANGED notLoaderVars

\* available_vram = get_available_vram_gb(); print("Auto-detected ...")
AvailableVram ==
    /\ pc = "vram"
    /\ calls' = [calls EXCEPT !.vram = @ + 1]
    /\ \/ /\ log' = Append(log, "auto-detected")
          /\ pc' = "flags"
          /\ UNCHANGED outcome
       \/ \E t \in ExcTypes :
             /\ Propagate(Exc(t, "vram"))
             /\ UNCHANGED log
    /\ UNCHANGED <<model_variant, memory_mode, force_reload, resolved_mode, low_mem,
                   ultra_low_mem, model_info, exc, rec_call, loader_args, loader_raised,
                   heap, returned, ncalls>>
    /\ UNCHANGED notLoaderVars

\* else: resolved_mode = memory_mode
ResolveGiven ==
    /\ pc = "resolve"
    /\ ~IsAuto(memory_mode)
    /\ resolved_mode' = memory_mode
    /\ pc' = "flags"
    /\ UNCHANGED <<model_variant, memory_mode, force_reload, low_mem, ultra_low_mem,
                   model_info, exc, calls, rec_call, loader_args, loader_raised, log,
                   outcome, heap, returned, ncalls>>
    /\ UNCHANGED notLoaderVars

\* Map mode to flags
MapFlags ==
    /\ pc = "flags"
    /\ low_mem' = MapLowMem(resolved_mode)
    /\ ultra_low_mem' = MapUltraLowMem(resolved_mode)
    /\ pc' = "info"
    /\ UNCHANGED <<model_variant, memory_mode, force_reload, resolved_mode,
                   model_info, exc, calls, rec_call, loader_args, loader_raised, log,
                   outcome, heap, returned, ncalls>>
    /\ UNCHANGED notLoaderVars

\* variant_info = get_variant_info(model_variant) and the banner printed from it
VariantInfo ==
    /\ pc = "info"
    /\ \/ /\ log' = Append(log, BannerLine(low_mem, ultra_low_mem))
          /\ pc' = "try"
          /\ UNCHANGED outcome
       \/ \E t \in ExcTypes :
             /\ Propagate(Exc(t, "info"))
             /\ UNCHANGED log
    /\ UNCHANGED <<model_variant, memory_mode, force_reload, resolved_mode, low_mem,
                   ultra_low_mem, model_info, exc, calls, rec_call, loader_args,
                   loader_raised, heap, returned, ncalls>>
    /\ UNCHANGED notLoaderVars

\* try: pbar = ProgressBar(4)
CreateProgressBar ==
    /\ pc = "try"
    /\ \/ /\ pc' = "load"
          /\ UNCHANGED exc
       \/ \E t \in ExcTypes :
             /\ exc' = Exc(t, "pbar")
             /\ pc' = "except"
    /\ UNCHANGED <<model_variant, memory_mode, force_reload, resolved_mode, low_mem,
                   ultra_low_mem, model_info, calls, rec_call, loader_args, loader_raised,
                   log, outcome, heap, returned, ncalls>>
    /\ UNCHANGED notLoaderVars

\* A model-info dict as the loader builds it: what it was loaded for, and
\* whatever the loader itself put under "ultra_low_mem".
FreshDicts(variant, lm) ==
    {[variant |-> variant, low_mem |-> lm, has_key |-> h, ultra_low_mem |-> u] :
        h \in BOOLEAN, u \in BOOLEAN} \ 
    {[variant |-> variant, low_mem |-> lm, has_key |-> FALSE, ultra_low_mem |-> TRUE]}

\* The dicts load_model may answer from its cache: those it built for the
\* same variant and low_mem, unless force_reload is set.
Cached(h, variant, lm, force) ==
    IF force THEN {}
    ELSE {o \in DOMAIN h : h[o].variant = variant /\ h[o].low_mem = lm}

\* model_info = load_model(variant=model_variant, low_mem=low_mem or
\* ultra_low_mem, use_flash_attn=False, force_reload=force_reload, ...)
LoadModel ==
    /\ pc = "load"
    /\ calls' = [calls EXCEPT !.load = @ + 1]
    /\ LET args == [variant |-> model_variant,
                    low_mem |-> LoaderLowMem(low_mem, ultra_low_mem),
                    use_flash_attn |-> FALSE,
                    force_reload |-> force_reload]
       IN /\ loader_args' = args
          /\ \/ \E d \in FreshDicts(args.variant, args.low_mem) :
                   /\ heap' = Append(heap, d)
                   /\ model_info' = Len(heap) + 1
                   /\ pc' = "tag"
                   /\ UNCHANGED <<exc, loader_raised>>
             \/ \E o \in Cached(heap, args.variant, args.low_mem, args.force_reload) :
                   /\ model_info' = o
                   /\ pc' = "tag"
                   /\ UNCHANGED <<heap, exc, loader_raised>>
             \/ /\ model_info' = 0
                /\ pc' = "tag"
                /\ UNCHANGED <<heap, exc, loader_raised>>
             \/ \E t \in ExcTypes :
                   /\ exc' = Exc(t, "load")
                   /\ loader_raised' = Exc(t, "load")
                   /\ pc' = "except"
                   /\ UNCHANGED <<heap, model_info>>
    /\ UNCHANGED <<model_variant, memory_mode, force_reload, resolved_mode, low_mem,
                   ultra_low_mem, rec_call, log, outcome, returned, ncalls>>
    /\ UNCHANGED notLoaderVars

\* model_info["ultra_low_mem"] = ultra_low_mem
TagModelInfo ==
    /\ pc = "tag"
    /\ IF model_info = 0
       THEN /\ exc' = Exc("TypeError", "tag")
            /\ pc' = "except"
            /\ UNCHANGED heap
       ELSE /\ heap' = [heap EXCEPT ![model_info].has_key = TRUE,
                                    ![model_info].ultra_low_mem = ultra_low_mem]
            /\ pc' = "return"
            /\ UNCHANGED exc
    /\ UNCHANGED <<model_variant, memory_mode, force_reload, resolved_mode, low_mem,
                   ultra_low_mem, model_info, calls, rec_call, loader_args, loader_raised,
                   log, outcome, returned, ncalls>>
    /\ UNCHANGED notLoaderVars

\* print("Model loaded successfully!"); return (model_info,)
ReturnModelInfo ==
    /\ pc = "return"
    /\ log' = Append(log, "success")
    /\ outcome' = [kind |-> "returned", obj |-> model_info, exc |-> NoExc]
    /\ returned' = returned \cup {[obj |-> model_info, flag |-> heap[model_info].ultra_low_mem]}
    /\ pc' = "done"
    /\ UNCHANGED <<model_variant, memory_mode, force_reload, resolved_mode, low_mem,
                   ultra_low_mem, model_info, exc, calls, rec_call, loader_args,
                   loader_raised, heap, ncalls>>
    /\ UNCHANGED notLoaderVars

\* except FileNotFoundError as e: the download hint; raise e
ExceptFileNotFound ==
    /\ pc = "except"
    /\ Handler(exc) = "hint"
    /\ log' = Append(log, "hint")
    /\ Propagate(Reraise(exc))
    /\ UNCHANGED <<model_variant, memory_mode, force_reload, resolved_mode, low_mem,
                   ultra_low_mem, model_info, exc, calls, rec_call, loader_args,
                   loader_raised, heap, returned, ncalls>>
    /\ UNCHANGED notLoaderVars

\* except Exception as e: print("ERROR loading model: ..."); raise e
ExceptException ==
    /\ pc = "except"
    /\ Handler(exc) = "error"
    /\ log' = Append(log, "error")
    /\ Propagate(Reraise(exc))
    /\ UNCHANGED <<model_variant, memory_mode, force_reload, resolved_mode, low_mem,
                   ultra_low_mem, model_info, exc, calls, rec_call, loader_args,
                   loader_raised, heap, returned, ncalls>>
    /\ UNCHANGED notLoaderVars

LoaderNext ==
    \/ \E variant \in Variants, mm \in MemoryModeInputs, force \in BOOLEAN :
          CallNode(variant, mm, force)
    \/ ResolveAuto
    \/ AvailableVram
    \/ ResolveGiven
    \/ MapFlags
    \/ VariantInfo
    \/ CreateProgressBar
    \/ LoadModel
    \/ TagModelInfo
    \/ ReturnModelInfo
    \/ ExceptFileNotFound
    \/ ExceptException

(***************************************************************************)
(* Specifications, one per part of the package.                            *)
(***************************************************************************)
InitPrune == PruneInit /\ PathsOff /\ LoaderOff
SpecPrune == InitPrune /\ [][PruneNext]_vars

InitSysPath == SysPathInit /\ PruneOff /\ LoaderOff
SpecSysPath == InitSysPath /\ [][SysPathNext]_vars

InitPaths == PathsInit /\ PruneOff /\ LoaderOff
SpecPaths == InitPaths /\ [][PathsNext]_vars

InitLoader == LoaderInit /\ PruneOff /\ PathsOff
SpecLoader == InitLoader /\ [][LoaderNext]_vars

Spec == SpecLoader


(***************************************************************************)
(* Properties of the compatibility shim.                                   *)
(***************************************************************************)
FallbackDone == cpc = "done" /\ fn = "fallback"
HeadsInRange == \A i \in DOMAIN heads : heads[i] \in 0..(n_heads - 1)
StrictlyAscending(s) == \A i \in 1..(Len(s) - 1) : s[i] < s[i + 1]
FlatPositions(hs, d) == {h * d + c : h \in hs, c \in 0..(d - 1)}

\* C3: the fallback returns, for every input, the same remaining-heads set
\* and the same index sequence as the transformers function it replaces.
C3_FallbackEqualsTransformers ==
    FallbackDone =>
        result = TransformersFind(heads, n_heads, head_dim, already_pruned_heads)

NoDuplicates(s) == \A i, j \in DOMAIN s : s[i] = s[j] => i = j
IndexIn(s, x) == CHOOSE i \in DOMAIN s : s[i] = x
Checked == ret.op \in {"check_model_files", "check_checkpoint_files", "check_bundled_files"}
                /\ ret.raised = "none"

\* The required items of each check, as the layout names them: the name
\* reported and the place on disk.
RequiredOf(op, arg) ==
    IF op = "check_model_files" THEN
        << [name |-> "config.yaml", at |-> <<"models", "songgen", arg, "config.yaml">>],
           [name |-> "model.pt", at |-> <<"models", "songgen", arg, "model.pt">>] >>
    ELSE IF op = "check_checkpoint_files" THEN
        << [name |-> "model_1rvq", at |-> <<"models", "songgen", "ckpt", "model_1rvq">>],
           [name |-> "model_septoken", at |-> <<"models", "songgen", "ckpt", "model_septoken">>],
           [name |-> "vae", at |-> <<"models", "songgen", "ckpt", "vae">>] >>
    ELSE
        << [name |-> "codeclm",
            at |-> <<"custom_nodes", "ComfyUI_FL-SongGen", "codeclm">>],
           [name |-> "codeclm/models",
            at |-> <<"custom_nodes", "ComfyUI_FL-SongGen", "codeclm", "models">>],
           [name |-> "codeclm/tokenizer",
            at |-> <<"custom_nodes", "ComfyUI_FL-SongGen", "codeclm", "tokenizer">>],
           [name |-> "third_party",
            at |-> <<"custom_nodes", "ComfyUI_FL-SongGen", "third_party">>],
           [name |-> "third_party/stable_audio_tools",
            at |-> <<"custom_nodes", "ComfyUI_FL-SongGen", "third_party", "stable_audio_tools">>],
           [name |-> "third_party/demucs",
            at |-> <<"custom_nodes", "ComfyUI_FL-SongGen", "third_party", "demucs">>] >>

\* C5: a check_* function that returns reports 'exists' exactly when
\* 'missing' is empty, and 'missing' holds exactly the required items absent
\* from the filesystem when it was called, each once, in the order of the
\* required list.
C5_CheckDicts ==
    Checked =>
        LET req == RequiredOf(ret.op, ret.arg)
            names == [i \in DOMAIN req |-> req[i].name]
        IN /\ ret.exists <=> (ret.missing = <<>>)
           /\ ToSet(ret.missing) =
                  {req[i].name : i \in {j \in DOMAIN req : fs_before[req[j].at] = "absent"}}
           /\ NoDuplicates(ret.missing)
           /\ \A i, j \in DOMAIN ret.missing :
                  i < j => IndexIn(names, ret.missing[i]) < IndexIn(names, ret.missing[j])

C5_Witness ==
    /\ ret.op = "check_checkpoint_files"
    /\ ret.raised = "none"
    /\ ret.missing = <<"model_1rvq", "vae">>
    /\ ~ret.exists
    /\ fs[<<"models", "songgen", "ckpt", "model_septoken">>] = "dir"

\* C9: get_songgen_models_dir, get_model_variant_dir, check_model_files and
\* check_checkpoint_files leave every required file and checkpoint item as
\* it was; all they change is that models/songgen (with models above it) and,
\* for the two variant functions, models/songgen/<variant> are created when
\* absent, and when they return those directories are there.
FrameOps == {"get_songgen_models_dir", "get_model_variant_dir",
             "check_model_files", "check_checkpoint_files"}
VariantOps == {"get_model_variant_dir", "check_model_files"}
RequiredItems ==
    {<<"models", "songgen", v, f>> : v \in Variants, f \in {"config.yaml", "model.pt"}}
    \cup {<<"models", "songgen", "ckpt">>}
    \cup {<<"models", "songgen", "ckpt", i>> : i \in {"model_1rvq", "model_septoken", "vae"}}
MayCreate(op, arg) ==
    {<<"models">>, <<"models", "songgen">>}
    \cup (IF op \in VariantOps THEN {<<"models", "songgen", arg>>} ELSE {})

C9_FilesystemFrame ==
    ret.op \in FrameOps =>
        /\ \A p \in RequiredItems : fs[p] = fs_before[p]
        /\ \A p \in AllPaths :
              fs[p] # fs_before[p] =>
                  /\ p \in MayCreate(ret.op, ret.arg)
                  /\ fs_before[p] = "absent"
                  /\ fs[p] = "dir"
        /\ ret.raised = "none" =>
              /\ fs[<<"models", "songgen">>] = "dir"
              /\ ret.op \in VariantOps => fs[<<"models", "songgen", ret.arg>>] = "dir"

C9_Witness ==
    /\ ret.op = "check_model_files"
    /\ ret.raised = "none"
    /\ ret.arg = "songgeneration_base"
    /\ fs_before[<<"models", "songgen", "songgeneration_base">>] = "absent"
    /\ fs[<<"models", "songgen", "songgeneration_base">>] = "dir"
    /\ fs[<<"models", "songgen", "songgeneration_base_new", "model.pt">>] = "file"
    /\ fs[<<"models", "songgen", "ckpt", "vae">>] = "dir"
    /\ fs[<<"models", "songgen", "ckpt", "model_1rvq">>] = "absent"

\* C8: after setup_bundled_imports (or its alias setup_runtime_imports)
\* every bundled path that exists on disk is in sys.path; what the call put
\* in front of the former sys.path are bundled paths that exist, were not
\* in it, each once; and a second call changes nothing.
BundledStrings ==
    [s \in { "/ComfyUI/custom_nodes/ComfyUI_FL-SongGen",
             "/ComfyUI/custom_nodes/ComfyUI_FL-SongGen/codeclm",
             "/ComfyUI/custom_nodes/ComfyUI_FL-SongGen/codeclm/tokenizer/Flow1dVAE",
             "/ComfyUI/custom_nodes/ComfyUI_FL-SongGen/third_party" } |->
        CASE s = "/ComfyUI/custom_nodes/ComfyUI_FL-SongGen" ->
                 <<"custom_nodes", "ComfyUI_FL-SongGen">>
          [] s = "/ComfyUI/custom_nodes/ComfyUI_FL-SongGen/codeclm" ->
                 <<"custom_nodes", "ComfyUI_FL-SongGen", "codeclm">>
          [] s = "/ComfyUI/custom_nodes/ComfyUI_FL-SongGen/codeclm/tokenizer/Flow1dVAE" ->
                 <<"custom_nodes", "ComfyUI_FL-SongGen", "codeclm", "tokenizer", "Flow1dVAE">>
          [] OTHER -> <<"custom_nodes", "ComfyUI_FL-SongGen", "third_party">>]
SetupDone == ret.op \in {"setup_bundled_imports", "setup_runtime_imports"}

C8_SetupImports ==
    SetupDone =>
        LET k == Len(sys_path) - Len(sys_before)
            new == SubSeq(sys_path, 1, k)
        IN /\ k >= 0
           /\ SubSeq(sys_path, k + 1, Len(sys_path)) = sys_before
           /\ \A s \in DOMAIN BundledStrings :
                  fs[BundledStrings[s]] # "absent" => s \in ToSet(sys_path)
           /\ \A s \in ToSet(new) :
                  /\ s \in DOMAIN BundledStrings
                  /\ fs[BundledStrings[s]] # "absent"
                  /\ s \notin ToSet(sys_before)
           /\ NoDuplicates(new)
           /\ nsetup >= 2 => sys_path = sys_before

C8_Witness ==
    /\ nsetup = 2
    /\ ret.op = "setup_runtime_imports"
    /\ sys_path = sys_before
    /\ Len(sys_path) > MaxSysPath + 1
    /\ "/usr/lib/python3" \in ToSet(sys_path)
    /\ \E s \in DOMAIN BundledStrings : fs[BundledStrings[s]] = "absent"

(***************************************************************************)
(* Properties of the model-loader node.                                    *)
(***************************************************************************)
Count(s, x) == Cardinality({i \in DOMAIN s : s[i] = x})
Done == pc = "done"
Failed == Done /\ outcome.kind = "raised"
Succeeded == Done /\ outcome.kind = "returned"

\* C1: when the loader call raises, the node call ends by raising that same
\* exception (same type, same origin), returns nothing, and has called the
\* loader once; no node call invokes the loader more than once.
C1_LoaderExceptionPropagates ==
    /\ calls.load <= 1
    /\ loader_raised # NoExc => calls.load = 1 /\ pc \in {"except", "done"}
    /\ (Done /\ loader_raised # NoExc) =>
           /\ outcome.kind = "raised"
           /\ outcome.exc = loader_raised
           /\ outcome.obj = 0
           /\ model_info = 0

C1_Witness ==
    /\ Done
    /\ loader_raised = Exc("FileNotFoundError", "load")
    /\ outcome.kind = "raised"
    /\ ncalls = 2

\* One of the two log forms, chosen by the exception's type.
LoggedOnce(e) ==
    /\ Count(log, "hint") + Count(log, "error") = 1
    /\ Count(log, "hint") = 1 <=> e.type = "FileNotFoundError"

\* C2 as stated: every exception that ends load_model, at whatever step it
\* is raised, is logged before it propagates, a missing file with the hint
\* and no error line, anything else with an error line.
C2_EveryExceptionLogged == Failed => LoggedOnce(outcome.exc)

\* C2 as the code has it: an exception raised inside the try block (creating
\* the progress bar, the loader call, tagging the result) is logged before it
\* propagates, a missing file with the hint and no error line, anything else
\* with an error line, exactly one of the two; an exception raised before
\* the try block (resolving the memory mode, the variant info and its
\* banner) propagates with neither.
C2_TryBlockExceptionLogged ==
    Failed =>
        IF InTry(outcome.exc.at)
        THEN LoggedOnce(outcome.exc)
        ELSE Count(log, "hint") + Count(log, "error") = 0

C2_Witness ==
    /\ Failed
    /\ outcome.exc = Exc("FileNotFoundError", "pbar")
    /\ log[Len(log)] = "hint"
    /\ Count(log, "error") = 0
    /\ calls.load = 0

\* C4: a memory_mode other than "auto" is the resolved mode and neither
\* VRAM helper is called; with "auto" the resolved mode is what
\* get_recommended_memory_mode returned for the selected variant, and once
\* the mode is resolved both helpers have been called exactly once.
Resolving == pc \in {"resolve", "vram"}
Resolved == pc \notin {"idle", "off", "resolve", "vram"} /\ resolved_mode # ""
             /\ outcome.exc.at \notin {"recommend", "vram"}
C4_MemoryModeResolution ==
    /\ calls.rec <= 1 /\ calls.vram <= 1
    /\ (pc \notin {"idle", "off"} /\ memory_mode # "auto") =>
           /\ calls.rec = 0 /\ calls.vram = 0
           /\ ~Resolving => resolved_mode = memory_mode
    /\ (Resolved /\ memory_mode = "auto") =>
           /\ rec_call.variant = model_variant
           /\ resolved_mode = rec_call.value
           /\ calls.rec = 1 /\ calls.vram = 1

C4_Witness ==
    /\ Succeeded
    /\ memory_mode = "auto"
    /\ resolved_mode = "ultra_low_mem"
    /\ calls = [rec |-> 1, vram |-> 1, load |-> 1]

\* C6: the loader is called with low_mem true exactly for the resolved modes
\* low, low_mem, ultra and ultra_low_mem, the ultra_low_mem flag is true
\* exactly for ultra and ultra_low_mem, so ultra_low_mem implies low_mem at
\* the loader; normal and unknown modes give both false; use_flash_attn is
\* always false.
C6_ModeToFlags ==
    calls.load >= 1 =>
        /\ loader_args.low_mem <=>
               resolved_mode \in {"low", "low_mem", "ultra", "ultra_low_mem"}
        /\ ultra_low_mem <=> resolved_mode \in {"ultra", "ultra_low_mem"}
        /\ ultra_low_mem => loader_args.low_mem
        /\ resolved_mode \in {"normal", "max"} =>
               ~loader_args.low_mem /\ ~ultra_low_mem
        /\ loader_args.use_flash_attn = FALSE
        /\ loader_args.variant = model_variant
        /\ loader_args.force_reload = force_reload

C6_Witness ==
    /\ calls.load = 1
    /\ resolved_mode = "ultra"
    /\ memory_mode = "auto"
    /\ loader_args.low_mem
    /\ ultra_low_mem

\* C7: every successful call returns a dict whose "ultra_low_mem" is the flag
\* of that call's resolved mode, and a dict returned by an earlier call keeps
\* the value it was returned with.
C7_ReturnedFlagKept ==
    /\ Succeeded =>
           /\ heap[outcome.obj].has_key
           /\ heap[outcome.obj].ultra_low_mem = MapUltraLowMem(resolved_mode)
    /\ \A r \in returned : heap[r.obj].ultra_low_mem = r.flag

====
